---- MODULE Spec2Model ----
(***************************************************************************)
(* Model of app.py: the mood -> token -> playlist pipeline that a click on *)
(* "Get Playlist" runs (detect_mood, get_spotify_token,                    *)
(* search_spotify_playlists and the script body that calls them).          *)
(*                                                                         *)
(* Text is a sequence of one-character strings, a JSON object is a         *)
(* function from keys to values (DOMAIN = the keys present), JSON null is  *)
(* JNull.  External services are the environment: every response they can *)
(* give is drawn from a small set.                                         *)
(***************************************************************************)
EXTENDS Integers, Sequences, FiniteSets, TLC

VARIABLES
    pc,               \* position of the script run (main thread)
    futTimeoutIsOs,   \* build: concurrent.futures.TimeoutError is builtin TimeoutError
    feeling,          \* st.text_input value of this run
    language,         \* st.selectbox value of this run
    chunks,           \* detect_mood: the streamed response the service will give
    delivered,        \* detect_mood: number of chunks ask_genai has consumed
    acc,              \* ask_genai local `mood` (accumulated chunk text)
    worker,           \* executor thread: "none" | "running" | "done"
    future,           \* the Future's stored outcome
    pending,          \* outcome of future.result(timeout=15) in the main thread
    mood,             \* script variable mood (detect_mood's return value)
    resp,             \* HTTP response held by the running function's frame
    token,            \* script variable token (get_spotify_token's return value)
    playlist_data,    \* script variable playlist_data
    calls,            \* external requests issued in this run, in order
    advisories,       \* st.error messages shown in this run, in order
    escaped,          \* function an exception escaped from ("none" if none)
    shown             \* what the result area displays

vars == <<pc, futTimeoutIsOs, feeling, language, chunks, delivered, acc, worker,
          future, pending, mood, resp, token, playlist_data, calls, advisories,
          escaped, shown>>

-----------------------------------------------------------------------------
(* Bounds *)

MaxChunks == 2      \* chunks in one streamed response
MaxItems == 3       \* items in an arbitrary search response

-----------------------------------------------------------------------------
(* Text *)

UpperChars == <<"A","B","C","D","E","F","G","H","I","J","K","L","M",
                "N","O","P","Q","R","S","T","U","V","W","X","Y","Z">>
LowerChars == <<"a","b","c","d","e","f","g","h","i","j","k","l","m",
                "n","o","p","q","r","s","t","u","v","w","x","y","z">>
Whitespace == {" ", "\n", "\t"}

LowerChar(c) ==
    IF \E i \in DOMAIN UpperChars : UpperChars[i] = c
    THEN LowerChars[CHOOSE i \in DOMAIN UpperChars : UpperChars[i] = c]
    ELSE c

\* str.lower()
Lower(s) == [i \in 1..Len(s) |-> LowerChar(s[i])]

RECURSIVE LStrip(_)
LStrip(s) == IF s # <<>> /\ Head(s) \in Whitespace THEN LStrip(Tail(s)) ELSE s

RECURSIVE RStrip(_)
RStrip(s) ==
    IF s # <<>> /\ s[Len(s)] \in Whitespace
    THEN RStrip(SubSeq(s, 1, Len(s) - 1))
    ELSE s

\* str.strip()
Strip(s) == RStrip(LStrip(s))

\* `sub in s`
Contains(s, sub) ==
    \E i \in 1..(Len(s) - Len(sub) + 1) : SubSeq(s, i, i + Len(sub) - 1) = sub

Happy     == <<"h","a","p","p","y">>
Sad       == <<"s","a","d">>
Energetic == <<"e","n","e","r","g","e","t","i","c">>
Calm      == <<"c","a","l","m">>

\* Chunk texts the generative service may stream.
Fragments ==
    { <<>>,
      <<"S","a","d">>,
      <<"H","A","P","P","Y">>,
      <<"c","a","l","m","\n">>,
      <<"E","n","e","r","g","e","t","i","c">>,
      <<"h","a","p">>,
      <<"p","y"," ">>,
      <<" ","n","o","t"," ","s","u","r","e">> }

RECURSIVE SeqsUpTo(_, _)
SeqsUpTo(S, n) ==
    IF n = 0 THEN { <<>> }
    ELSE LET shorter == SeqsUpTo(S, n - 1)
         IN  shorter \cup { Append(q, x) : q \in shorter, x \in S }

Streams == SeqsUpTo(Fragments, MaxChunks)

-----------------------------------------------------------------------------
(* detect_mood *)

NoMood == <<>>

\* The keys of the matching loop, in the order the loop tries them.
MoodKeys_SadFirst == <<Sad, Happy, Energetic, Calm>>
MoodKeys == <<Happy, Sad, Energetic, Calm>>

RECURSIVE MatchFrom(_, _)
MatchFrom(m, k) ==
    IF k > Len(MoodKeys) THEN Happy
    ELSE IF Contains(m, MoodKeys[k]) THEN MoodKeys[k]
    ELSE MatchFrom(m, k + 1)

\* for key in [...]: if key in mood: return key / return "happy"
MatchMood_ReturnRaw(m) ==
    IF \E k \in DOMAIN MoodKeys : Contains(m, MoodKeys[k]) THEN MatchFrom(m, 1) ELSE m
MatchMood(m) == MatchFrom(m, 1)

\* Exceptions ask_genai can raise (service error, or a socket-level timeout).
GenaiErrors == {"GoogleAPIError", "TimeoutError"}

NoOutcome == [kind |-> "none", val |-> <<>>, exc |-> "none"]
Value(v)  == [kind |-> "value", val |-> v, exc |-> "none"]
Raised(e) == [kind |-> "raised", val |-> <<>>, exc |-> e]

\* except concurrent.futures.TimeoutError
CaughtAsFuturesTimeout(e) ==
    \/ e = "FuturesTimeout"
    \/ e = "TimeoutError" /\ futTimeoutIsOs


-----------------------------------------------------------------------------
(* JSON values and HTTP outcomes *)

JNull   == [t |-> "null", v |-> <<>>]
JText   == [t |-> "text", v |-> <<>>]       \* a body that is not JSON
JObj(d) == [t |-> "obj", v |-> d]

EmptyDict == <<>>

\* dict.get(k, default)
GetOr(d, k, default) == IF k \in DOMAIN d THEN d[k] ELSE default

StatusOK == 200

NoResp        == [kind |-> "none", status |-> 0, body |-> JText, exc |-> "none"]
Http(s, b)    == [kind |-> "response", status |-> s, body |-> b, exc |-> "none"]
HttpFailed(e) == [kind |-> "exception", status |-> 0, body |-> JText, exc |-> e]

\* What requests.post / requests.get raise instead of answering.
TransportErrors == {"Timeout", "ConnectionError"}

\* response.json(): the parsed body, or the exception it raises
Json(r) == IF r.body.t = "text" THEN Raised("JSONDecodeError") ELSE Value(r.body)

\* except Exception
IsException_OnlyTimeout(e) == e = "Timeout"
IsException(e) == e # "none"

Result(ret, adv, exc) == [ret |-> ret, adv |-> adv, exc |-> exc]

-----------------------------------------------------------------------------
(* get_spotify_token *)

NoToken == ""
TokenValues == {"BQA-1", "BQA-2"}

TokenBodies ==
    { JText, JNull, JObj([error |-> "invalid_client"]) }
    \cup { JObj([access_token |-> t, token_type |-> "Bearer"]) : t \in TokenValues }

TokenResponses ==
    { Http(s, b) : s \in {StatusOK, 400, 503}, b \in TokenBodies }
    \cup { HttpFailed(e) : e \in TransportErrors }

TokenCall == [api |-> "token", bearer |-> NoToken, q |-> <<>>]

\* the try block, lines 67-76
TokenTry(r) ==
    IF r.kind = "exception" THEN Result(NoToken, <<>>, r.exc)
    ELSE IF r.status = StatusOK
    THEN LET j == Json(r)
         IN  IF j.kind = "raised" THEN Result(NoToken, <<>>, j.exc)
             ELSE IF j.val.t # "obj" THEN Result(NoToken, <<>>, "AttributeError")
             ELSE Result(GetOr(j.val.v, "access_token", ""), <<>>, "none")
    ELSE Result(NoToken, <<"Spotify Auth Error">>, "none")

\* get_spotify_token given the outcome r of its POST
get_spotify_token(r) ==
    LET t == TokenTry(r)
    IN  IF t.exc = "none" THEN t
        ELSE IF IsException(t.exc)
        THEN Result(NoToken, <<"Spotify Token Fetch Failed">>, "none")
        ELSE t

-----------------------------------------------------------------------------
(* search_spotify_playlists *)

Limit == 5

ImgA == [url |-> "https://i.scdn.co/image/a"]
ImgB == [url |-> "https://i.scdn.co/image/b"]
UrlA == "https://open.spotify.com/playlist/a1?si=1"
UrlB == "https://open.spotify.com/playlist/b2"

FullA       == JObj([name |-> "A", external_urls |-> [spotify |-> UrlA], images |-> <<ImgA>>])
FullB       == JObj([name |-> "B", external_urls |-> [spotify |-> UrlB], images |-> <<ImgB, ImgA>>])
NoName      == JObj([external_urls |-> [spotify |-> UrlA], images |-> <<ImgB>>])
NoUrl       == JObj([name |-> "C", images |-> <<ImgA>>])
NoImagesKey == JObj([name |-> "D", external_urls |-> [spotify |-> UrlB]])
EmptyImages == JObj([name |-> "E", external_urls |-> [spotify |-> UrlB], images |-> <<>>])
EmptyItem   == JObj(EmptyDict)

ItemKinds == {JNull, EmptyItem, FullA, FullB, NoName, NoUrl, NoImagesKey, EmptyImages}

\* A service that ignores limit=5.
OverLimitItems == [i \in 1..(Limit + 1) |-> IF i % 2 = 1 THEN FullA ELSE FullB]

ItemLists == SeqsUpTo(ItemKinds, MaxItems) \cup {OverLimitItems}

SearchBodies ==
    { JText, JObj([href |-> "x"]) }
    \cup { JObj([playlists |-> [items |-> its]]) : its \in ItemLists }

SearchResponses ==
    { Http(StatusOK, b) : b \in SearchBodies }
    \cup { Http(s, JObj([error |-> "x"])) : s \in {401, 429} }
    \cup { HttpFailed(e) : e \in TransportErrors }

Query(m, l) == <<l, m, "playlist">>
SearchCall(m, l, t) == [api |-> "search", bearer |-> t, q |-> Query(m, l)]

\* if not token
TokenMissing_Never(t) == FALSE
TokenMissing(t) == t = NoToken

\* if item
Truthy_Always(item) == TRUE
Truthy(item) == item.t = "obj" /\ DOMAIN item.v # {}

\* the dict built at lines 96-100, or the exception building it raises
PlaylistOf(item) ==
    IF item.t # "obj" THEN Raised("AttributeError")
    ELSE LET d      == item.v
             images == GetOr(d, "images", <<EmptyDict>>)
         IN  IF Len(images) = 0 THEN Raised("IndexError")
             ELSE Value([title |-> GetOr(d, "name", "Unknown"),
                         url   |-> GetOr(GetOr(d, "external_urls", EmptyDict), "spotify", "#"),
                         image |-> GetOr(images[1], "url", "")])

\* for item in items: if item: playlists.append({...})
RECURSIVE Extract(_, _)
Extract(items, playlists) ==
    IF items = <<>> THEN Value(playlists)
    ELSE IF Truthy(Head(items))
    THEN LET p == PlaylistOf(Head(items))
         IN  IF p.kind = "raised" THEN p
             ELSE Extract(Tail(items), Append(playlists, p.val))
    ELSE Extract(Tail(items), playlists)

\* the try block, lines 85-103
SearchTry(r) ==
    IF r.kind = "exception" THEN Result(<<>>, <<>>, r.exc)
    ELSE IF r.status = StatusOK
    THEN LET j == Json(r)
         IN  IF j.kind = "raised" THEN Result(<<>>, <<>>, j.exc)
             ELSE IF j.val.t # "obj" THEN Result(<<>>, <<>>, "AttributeError")
             ELSE LET items == GetOr(GetOr(j.val.v, "playlists", EmptyDict), "items", <<>>)
                      x     == Extract(items, <<>>)
                  IN  IF x.kind = "raised" THEN Result(<<>>, <<>>, x.exc)
                      ELSE Result(x.val, <<>>, "none")
    ELSE Result(<<>>, <<"Spotify API Error">>, "none")

\* search_spotify_playlists past its token guard, given the outcome r of its GET
search_spotify_playlists(r) ==
    LET t == SearchTry(r)
    IN  IF t.exc = "none" THEN t
        ELSE IF IsException(t.exc)
        THEN Result(<<>>, <<"Spotify Search Failed">>, "none")
        ELSE t

-----------------------------------------------------------------------------
(* The script run *)

Languages == {"English", "Hindi", "Telugu", "Tamil"}
Feelings  == {"", "worn out after a long week"}
MoodLabels == {Happy, Sad, Energetic, Calm}

GenaiCall == [api |-> "genai", bearer |-> NoToken, q |-> <<>>]

Init ==
    /\ pc = "idle"
    /\ futTimeoutIsOs \in BOOLEAN
    /\ feeling = ""
    /\ language = "English"
    /\ chunks = <<>>
    /\ delivered = 0
    /\ acc = <<>>
    /\ worker = "none"
    /\ future = NoOutcome
    /\ pending = NoOutcome
    /\ mood = NoMood
    /\ resp = NoResp
    /\ token = NoToken
    /\ playlist_data = <<>>
    /\ calls = <<>>
    /\ advisories = <<>>
    /\ escaped = "none"
    /\ shown = "info"

detectLocals == <<chunks, delivered, acc, worker, future, pending>>
results == <<mood, token, playlist_data>>

\* A widget interaction reruns the script from the top (lines 123-126, 151-152):
\* nothing of the previous run is kept.
Click ==
    /\ pc \in {"idle", "done", "crashed"}
    /\ \E f \in Feelings, l \in Languages, button \in BOOLEAN :
          /\ feeling' = f
          /\ language' = l
          /\ IF button /\ f # ""
             THEN pc' = "detect_mood" /\ shown' = "spinner"
             ELSE pc' = "idle" /\ shown' = "info"
    /\ chunks' = <<>> /\ delivered' = 0 /\ acc' = <<>> /\ worker' = "none"
    /\ future' = NoOutcome /\ pending' = NoOutcome
    /\ mood' = NoMood /\ resp' = NoResp /\ token' = NoToken /\ playlist_data' = <<>>
    /\ calls' = <<>> /\ advisories' = <<>> /\ escaped' = "none"
    /\ UNCHANGED futTimeoutIsOs

\* executor.submit(ask_genai): the worker starts and sends the prompt (lines 46, 53-54)
Submit ==
    /\ pc = "detect_mood"
    /\ pc' = "future_result"
    /\ worker' = "running"
    /\ chunks' \in Streams
    /\ calls' = Append(calls, GenaiCall)
    /\ UNCHANGED <<futTimeoutIsOs, feeling, language, delivered, acc, future, pending,
                   results, resp, advisories, escaped, shown>>

\* for chunk in response: mood += chunk.text (lines 48-49)
WorkerChunk ==
    /\ worker = "running"
    /\ delivered < Len(chunks)
    /\ acc' = acc \o chunks[delivered + 1]
    /\ delivered' = delivered + 1
    /\ UNCHANGED <<pc, futTimeoutIsOs, feeling, language, chunks, worker, future, pending,
                   results, resp, calls, advisories, escaped, shown>>

\* return mood.strip().lower() (line 50)
WorkerFinish ==
    /\ worker = "running"
    /\ delivered = Len(chunks)
    /\ future' = Value(Lower(Strip(acc)))
    /\ worker' = "done"
    /\ UNCHANGED <<pc, futTimeoutIsOs, feeling, language, chunks, delivered, acc, pending,
                   results, resp, calls, advisories, escaped, shown>>

\* generate_content or chunk.text raises inside the worker (lines 46-49)
WorkerRaise ==
    /\ worker = "running"
    /\ \E e \in GenaiErrors : future' = Raised(e)
    /\ worker' = "done"
    /\ UNCHANGED <<pc, futTimeoutIsOs, feeling, language, chunks, delivered, acc, pending,
                   results, resp, calls, advisories, escaped, shown>>

\* future.result(timeout=15) hands over the worker's outcome (line 55)
FutureReady ==
    /\ pc = "future_result"
    /\ worker = "done"
    /\ pending' = future
    /\ pc' = "executor_exit"
    /\ UNCHANGED <<futTimeoutIsOs, feeling, language, chunks, delivered, acc, worker, future,
                   results, resp, calls, advisories, escaped, shown>>

\* future.result(timeout=15) raises after 15 s with the worker still running (line 55)
FutureTimeout ==
    /\ pc = "future_result"
    /\ worker = "running"
    /\ pending' = Raised("FuturesTimeout")
    /\ pc' = "executor_exit"
    /\ UNCHANGED <<futTimeoutIsOs, feeling, language, chunks, delivered, acc, worker, future,
                   results, resp, calls, advisories, escaped, shown>>

\* Leaving the `with` block runs executor.shutdown(wait=True), which joins the
\* worker; then the except clause or the matching loop runs (lines 53, 56-63).
ExecutorShutdown ==
    /\ pc = "executor_exit"
    /\ worker = "done"
    /\ IF pending.kind = "value"
       THEN /\ mood' = MatchMood(pending.val)
            /\ pc' = "detect_return"
            /\ UNCHANGED <<advisories, escaped, shown>>
       ELSE IF CaughtAsFuturesTimeout(pending.exc)
       THEN /\ mood' = Happy
            /\ advisories' = Append(advisories, "Gemini API is taking too long to respond")
            /\ pc' = "detect_return"
            /\ UNCHANGED <<escaped, shown>>
       ELSE /\ escaped' = "detect_mood"
            /\ shown' = "traceback"
            /\ pc' = "crashed"
            /\ UNCHANGED <<mood, advisories>>
    /\ UNCHANGED <<futTimeoutIsOs, feeling, language, detectLocals, resp, token,
                   playlist_data, calls>>

\* mood = detect_mood(feeling) returns; its frame is gone (lines 129-132)
DetectReturn ==
    /\ pc = "detect_return"
    /\ pc' = "get_token"
    /\ chunks' = <<>> /\ delivered' = 0 /\ acc' = <<>> /\ worker' = "none"
    /\ future' = NoOutcome /\ pending' = NoOutcome
    /\ UNCHANGED <<futTimeoutIsOs, feeling, language, results, resp, calls, advisories,
                   escaped, shown>>

\* token = get_spotify_token() runs to its return statement (lines 65-79)
GetSpotifyToken ==
    /\ pc = "get_token"
    /\ \E r \in TokenResponses :
          LET x == get_spotify_token(r)
          IN  /\ resp' = r
              /\ advisories' = advisories \o x.adv
              /\ IF x.exc = "none"
                 THEN token' = x.ret /\ pc' = "token_return" /\ UNCHANGED <<escaped, shown>>
                 ELSE /\ escaped' = "get_spotify_token"
                      /\ shown' = "traceback"
                      /\ pc' = "crashed"
                      /\ UNCHANGED token
    /\ calls' = Append(calls, TokenCall)
    /\ UNCHANGED <<futTimeoutIsOs, feeling, language, detectLocals, mood, playlist_data>>

\* get_spotify_token has returned (lines 133-136)
TokenReturn_RetryOnce ==
    /\ pc = "token_return"
    /\ IF token = NoToken /\ Len(calls) < 3 THEN pc' = "get_token" ELSE pc' = "search"
    /\ resp' = NoResp
    /\ UNCHANGED <<futTimeoutIsOs, feeling, language, detectLocals, results, calls,
                   advisories, escaped, shown>>
TokenReturn ==
    /\ pc = "token_return"
    /\ pc' = "search"
    /\ resp' = NoResp
    /\ UNCHANGED <<futTimeoutIsOs, feeling, language, detectLocals, results, calls,
                   advisories, escaped, shown>>

\* playlist_data = search_spotify_playlists(mood, language, token) runs to its
\* return statement (lines 81-106)
SearchSpotifyPlaylists ==
    /\ pc = "search"
    /\ IF TokenMissing(token)
       THEN /\ playlist_data' = <<>>
            /\ pc' = "search_return"
            /\ UNCHANGED <<resp, calls, advisories, escaped, shown>>
       ELSE /\ calls' = Append(calls, SearchCall(mood, language, token))
            /\ \E r \in SearchResponses :
                  LET x == search_spotify_playlists(r)
                  IN  /\ resp' = r
                      /\ advisories' = advisories \o x.adv
                      /\ IF x.exc = "none"
                         THEN /\ playlist_data' = x.ret
                              /\ pc' = "search_return"
                              /\ UNCHANGED <<escaped, shown>>
                         ELSE /\ escaped' = "search_spotify_playlists"
                              /\ shown' = "traceback"
                              /\ pc' = "crashed"
                              /\ UNCHANGED playlist_data
    /\ UNCHANGED <<futTimeoutIsOs, feeling, language, detectLocals, mood, token>>

\* the result area (lines 139-150)
Display ==
    /\ pc = "search_return"
    /\ pc' = "done"
    /\ resp' = NoResp
    /\ shown' = IF playlist_data # <<>> THEN "playlists" ELSE "warning"
    /\ UNCHANGED <<futTimeoutIsOs, feeling, language, detectLocals, results, calls,
                   advisories, escaped>>

Next ==
    \/ Click
    \/ Submit
    \/ WorkerChunk
    \/ WorkerFinish
    \/ WorkerRaise
    \/ FutureReady
    \/ FutureTimeout
    \/ ExecutorShutdown
    \/ DetectReturn
    \/ GetSpotifyToken
    \/ TokenReturn
    \/ SearchSpotifyPlaylists
    \/ Display

Spec == Init /\ [][Next]_vars

-----------------------------------------------------------------------------
(* Properties *)

Apis == [i \in DOMAIN calls |-> calls[i].api]
Sent(api) == \E i \in DOMAIN calls : calls[i].api = api
AfterDetect == {"detect_return", "get_token", "token_return", "search", "search_return", "done"}

RECURSIVE Flatten(_)
Flatten(ss) == IF ss = <<>> THEN <<>> ELSE Head(ss) \o Flatten(Tail(ss))

\* The whole response as the service sent it, lower-cased.
ResponseText == Lower(Flatten(chunks))

CompletedInTime == pc = "detect_return" /\ pending.kind = "value"
TimedOut == pending = Raised("FuturesTimeout")

\* C1: whatever detect_mood returns is one of the four labels happy, sad,
\* energetic, calm, for every response of the generative service.
C1_MoodIsLabel == pc \in AfterDetect => mood \in MoodLabels

\* C1 witness: the service answered with text holding none of the labels and
\* detect_mood returned happy.
C1_Witness ==
    /\ CompletedInTime
    /\ Len(ResponseText) > 0
    /\ \A l \in MoodLabels : ~Contains(ResponseText, l)
    /\ mood = Happy

\* The first label in the order happy, sad, energetic, calm that occurs in
\* text; happy when none occurs.
PriorityOrder == <<Happy, Sad, Energetic, Calm>>
ReferenceMood(text) ==
    LET hits == {k \in DOMAIN PriorityOrder : Contains(text, PriorityOrder[k])}
    IN  IF hits = {} THEN Happy
        ELSE PriorityOrder[CHOOSE k \in hits : \A j \in hits : k <= j]

\* C4: when the generative call completes in time, detect_mood returns the first
\* label, in the order happy, sad, energetic, calm, that is a substring of the
\* lower-cased concatenation of all chunks, and happy when there is none.
C4_MatchesReference == CompletedInTime => mood = ReferenceMood(ResponseText)

\* C4 witness: a two-chunk response that contains sad and calm but not happy,
\* and is more than the bare word, returned sad.
C4_Witness ==
    /\ CompletedInTime
    /\ Len(chunks) = 2
    /\ Contains(ResponseText, Sad) /\ Contains(ResponseText, Calm)
    /\ ~Contains(ResponseText, Happy)
    /\ mood = Sad

\* C2: no exception escapes detect_mood, get_spotify_token or
\* search_spotify_playlists, so no run of the pipeline is cut short.
C2_NoExceptionEscapes == escaped = "none" /\ pc # "crashed"

\* C3: once the 15 s deadline has expired, detect_mood goes on to return happy
\* without waiting for the in-flight call: its next step never depends on the
\* worker having finished.
C3_TimeoutDoesNotWait ==
    (pc = "executor_exit" /\ TimedOut) => worker = "done"

\* C5: with an empty token search_spotify_playlists returns the empty list and
\* sends nothing; a run whose token is empty never holds a search request.
C5_EmptyTokenNoRequest ==
    /\ token = NoToken => ~Sent("search")
    /\ (pc = "search_return" /\ token = NoToken) => (playlist_data = <<>> /\ resp = NoResp)

\* C5 witness: the token request was made, gave no token, and the search step ran.
C5_Witness ==
    /\ pc = "search_return"
    /\ token = NoToken
    /\ Sent("token")

TokenRequestFailed == resp.kind = "exception" \/ resp.status # StatusOK

\* C6: get_spotify_token never raises; it returns the empty string when its
\* request timed out, failed in transport or was answered with a status other
\* than 200, and a non-empty token only after a 200.
C6_TokenFallback ==
    /\ escaped # "get_spotify_token"
    /\ pc = "token_return" =>
          /\ TokenRequestFailed => token = NoToken
          /\ token # NoToken => (resp.kind = "response" /\ resp.status = StatusOK)

\* C6 witness: a 400 answer gave the empty token and an advisory.
C6_Witness ==
    /\ pc = "token_return"
    /\ resp.kind = "response" /\ resp.status = 400
    /\ token = NoToken
    /\ advisories # <<>>

\* The items of a 200 search response that carries a list, <<>> otherwise.
HasItems ==
    /\ resp.kind = "response" /\ resp.status = StatusOK
    /\ resp.body.t = "obj"
    /\ "playlists" \in DOMAIN resp.body.v
ResponseItems == resp.body.v.playlists.items

SearchAnswered == pc = "search_return" /\ token # NoToken /\ HasItems

NonNull(items) == {i \in DOMAIN items : items[i].t # "null"}
Rank(items, i) == Cardinality({j \in NonNull(items) : j <= i})

\* A record with its name, its external link and at least one image.
Valid(item) ==
    /\ item.t = "obj"
    /\ {"name", "external_urls", "images"} \subseteq DOMAIN item.v
    /\ "spotify" \in DOMAIN item.v.external_urls
    /\ Len(item.v.images) >= 1
    /\ "url" \in DOMAIN item.v.images[1]

\* C7: for a non-empty token and a 200 response whose items are valid records
\* and nulls, the result has one entry per non-null item, in the items' order.
C7_OnePerNonNullInOrder ==
    (SearchAnswered /\ \A i \in DOMAIN ResponseItems :
                          ResponseItems[i].t = "null" \/ Valid(ResponseItems[i]))
    => /\ Len(playlist_data) = Cardinality(NonNull(ResponseItems))
       /\ \A i \in NonNull(ResponseItems) :
             playlist_data[Rank(ResponseItems, i)] =
                [title |-> ResponseItems[i].v.name,
                 url   |-> ResponseItems[i].v.external_urls.spotify,
                 image |-> ResponseItems[i].v.images[1].url]

\* C7 witness: two different valid items around a null gave two results.
C7_Witness ==
    /\ SearchAnswered
    /\ Len(ResponseItems) = 3
    /\ Valid(ResponseItems[1]) /\ ResponseItems[2].t = "null" /\ Valid(ResponseItems[3])
    /\ ResponseItems[1] # ResponseItems[3]
    /\ Len(playlist_data) = 2

\* The result the defaults give for a non-null item.
WithDefaults(item) ==
    LET d == item.v
    IN  [title |-> IF "name" \in DOMAIN d THEN d.name ELSE "Unknown",
         url   |-> IF "external_urls" \in DOMAIN d /\ "spotify" \in DOMAIN d.external_urls
                   THEN d.external_urls.spotify ELSE "#",
         image |-> IF "images" \in DOMAIN d /\ Len(d.images) >= 1
                      /\ "url" \in DOMAIN d.images[1]
                   THEN d.images[1].url ELSE ""]

\* C8: every non-null item of a 200 response is returned, each missing field
\* replaced by its default (Unknown, #, empty image URL), also when the images
\* list is present but empty.  Stated for responses whose non-null items each
\* carry at least one field.
C8_DefaultsNeverAbort ==
    (SearchAnswered /\ \A i \in NonNull(ResponseItems) : DOMAIN ResponseItems[i].v # {})
    => /\ Len(playlist_data) = Cardinality(NonNull(ResponseItems))
       /\ \A i \in NonNull(ResponseItems) :
             playlist_data[Rank(ResponseItems, i)] = WithDefaults(ResponseItems[i])

\* C9: search_spotify_playlists never returns more than 5 entries.
C9_AtMostLimit == Len(playlist_data) <= Limit

PipelineOrder == <<"genai", "token", "search">>

\* C10: in one run the requests go out in the order generative call, token
\* request, search request, each at most once, the search carries the token
\* this run's token request returned, and a run that reaches the search step
\* has made its own token request.
C10_OrderOnceFresh ==
    /\ Len(calls) <= Len(PipelineOrder)
    /\ Apis = SubSeq(PipelineOrder, 1, Len(calls))
    /\ \A i \in DOMAIN calls : calls[i].api = "search" => calls[i].bearer = token
    /\ pc \in {"token_return", "search", "search_return", "done"} => Sent("token")

\* C10 witness: the generative call timed out, and the run still sent each of
\* the three requests exactly once, in order.
C10_Witness ==
    /\ pc = "search_return"
    /\ Apis = PipelineOrder
    /\ advisories # <<>>
    /\ advisories[1] = "Gemini API is taking too long to respond"

====
